---------------------------- MODULE Spec2Model ----------------------------
(***************************************************************************)
(* DebugEditorContribution                                                 *)
(* (src/vs/workbench/contrib/debug/browser/debugEditorContribution.ts):    *)
(* the per-editor controller that keeps the debug hover, the exception     *)
(* widget and the inline value decorations in step with the debugger.      *)
(*                                                                         *)
(* Time is counted in ticks of 100 ms.  A RunOnceScheduler is a number:    *)
(* Off when it is not scheduled, otherwise the ticks left until its runner *)
(* runs.  Time cannot pass while a scheduler that has reached 0 has not    *)
(* yet run.  A handler runs atomically up to its first await of a result   *)
(* of the debug adapter (thread.exceptionInfo, getMostSpecificScopes,      *)
(* getChildren); the rest of it is a continuation that resumes later,      *)
(* interleaved with other events.                                          *)
(*                                                                         *)
(* hoverWidget.showAt is taken to display the widget at the range it is    *)
(* given.  The inline value decorations are named by the frame they were   *)
(* computed for.  Not modelled: _applyHoverConfiguration (the editor's own *)
(* hover option), the "Add Configuration..." widget, and the text of the   *)
(* decorations (createInlineValueDecorationsInsideRange and the cache      *)
(* wordToLineNumbersMap).                                                  *)
(***************************************************************************)
EXTENDS Integers, Sequences, FiniteSets, TLC

\* ------------------------------------------------------------------ bounds
\* continuations of toggleExceptionWidget awaiting thread.exceptionInfo
MaxToggles == 1
\* update passes awaiting scopes / children at the same time
MaxPasses == 2

\* --------------------------------------------------------------- constants
\* const HOVER_DELAY = 300, in ticks
HOVER_DELAY == 3
\* hideHoverScheduler: 2 * HOVER_DELAY
HIDE_DELAY == 2 * HOVER_DELAY
\* updateInlineValuesScheduler: 200
UPDATE_DELAY == 2
\* removeInlineValuesScheduler: 100
REMOVE_DELAY == 1

\* a scheduler that is not scheduled (timeoutToken === -1)
Off == 0 - 1

\* ------------------------------------------------- the debugger's entities
NoFrame == 0
NoModel == "none"
NoRange == 0

\* the editor's model: none, or a text model with this URI
Models == {NoModel, "A", "B"}

\* State of the debug service
States == {"Inactive", "Stopped", "Running"}

\* ranges of editor text the mouse can be over
Ranges == {1, 2}

\* a mouse target's position: none, or a position of the text (all alike:
\* the contribution only stores it and hands it to getHover)
NoPosition == 0
SomePosition == 1

\* Stack frames.  Thread 1 stopped on an exception; its call stack is
\* <<1, 2>>: frame 1 is library code shown deemphasized, frame 2 is the
\* first available frame.  Thread 2 stopped on an exception in a frame
\* without a position.  Thread 3 stopped without exception.
Frames == {1, 2, 3, 4}

FrameTable ==
    [f \in Frames |->
        CASE f = 1 -> [thread |-> 1, uri |-> "A", available |-> TRUE,
                       hint |-> "deemphasize", line |-> 7, column |-> 1]
          [] f = 2 -> [thread |-> 1, uri |-> "A", available |-> TRUE,
                       hint |-> "normal", line |-> 3, column |-> 1]
          [] f = 3 -> [thread |-> 2, uri |-> "B", available |-> TRUE,
                       hint |-> "normal", line |-> 0, column |-> 0]
          [] f = 4 -> [thread |-> 3, uri |-> "A", available |-> TRUE,
                       hint |-> "normal", line |-> 2, column |-> 1]]

\* thread.getCallStack()
CallStack(t) ==
    CASE t = 1 -> <<1, 2>>
      [] t = 2 -> <<3>>
      [] t = 3 -> <<4>>

\* what thread.exceptionInfo resolves to: TRUE when there is exception info
ExceptionInfo(t) == t \in {1, 2}

\* mouse targets: [type, detail, range, position]
HoverWidgetID == "debug.hoverWidget"

Targets ==
    {[type |-> "CONTENT_TEXT", detail |-> "", range |-> r, position |-> SomePosition] : r \in Ranges}
    \cup {[type |-> "CONTENT_TEXT", detail |-> "", range |-> NoRange, position |-> SomePosition],
          [type |-> "CONTENT_WIDGET", detail |-> HoverWidgetID, range |-> NoRange, position |-> NoPosition],
          [type |-> "CONTENT_WIDGET", detail |-> "other", range |-> NoRange, position |-> NoPosition],
          [type |-> "GUTTER", detail |-> "", range |-> NoRange, position |-> SomePosition],
          [type |-> "UNKNOWN", detail |-> "", range |-> NoRange, position |-> NoPosition]}

KeyCodes == {"Ctrl", "Meta", "Other"}

\* hoverDomNode.getBoundingClientRect() and the positions (posx, posy) of
\* mouse-leave events: two inside the rectangle, on its corners, and one
\* beyond each of its sides
HoverRect == [left |-> 1, right |-> 2, top |-> 1, bottom |-> 2]
LeavePositions ==
    {[posx |-> 1, posy |-> 1], [posx |-> 2, posy |-> 2],
     [posx |-> 0, posy |-> 1], [posx |-> 3, posy |-> 2],
     [posx |-> 1, posy |-> 0], [posx |-> 2, posy |-> 3]}

VARIABLES
    \* the debug service and the editor
    debugState,            \* debugService.state
    focusedStackFrame,     \* debugService.getViewModel().focusedStackFrame
    model,                 \* editor.getModel()
    inlineValues,          \* configuration debug.inlineValues
    enableAllHovers,       \* configuration debug.enableAllHovers
    isMacintosh,           \* env.isMacintosh
    \* the contribution's fields
    hoverWidget,           \* NoRange when hidden, else the range it shows
    hoverRange,
    nonDebugHoverPosition,
    mouseDown,
    exceptionWidget,       \* <<>> when undefined, else <<line, column>>
    decorations,           \* NoFrame: none; else those computed for a frame
    disposed,
    \* the schedulers
    showT, hideT, nonDebugT, updateT, removeT,
    \* continuations
    toggles,               \* set of [sf, thenUpdate] awaiting exceptionInfo
    passes,                \* sequence of frames: passes awaiting scopes
    \* observation
    ev,                    \* <<the handler that ran last, what it was given or did>>
    hideCalled,            \* it called hideHoverWidget
    sinceContent,          \* ticks since the last content change (capped)
    sinceRange,            \* ticks since hoverRange was last stored (capped)
    lastPass,              \* the frame of the update pass started last
    shownSinceHide         \* the show pass has displayed the hover at a new
                           \* range while the hide pass that is pending now
                           \* was pending

envVars == <<debugState, focusedStackFrame, model, inlineValues, enableAllHovers, isMacintosh>>
hoverVars == <<hoverWidget, hoverRange, nonDebugHoverPosition, mouseDown>>
hoverTimers == <<showT, hideT, nonDebugT>>
inlineTimers == <<updateT, removeT>>
clocks == <<sinceContent, sinceRange>>
history == <<clocks, shownSinceHide>>
vars == <<envVars, hoverVars, exceptionWidget, decorations, disposed,
          hoverTimers, inlineTimers, toggles, passes, lastPass, ev, hideCalled, history>>


\* ------------------------------------------------------- RunOnceScheduler
\* schedule(): cancel, then set the timeout to the scheduler's delay
Schedule(delay) == delay
\* cancel()
Cancel == Off
\* isScheduled()
IsScheduled(t) == t # Off

\* ---------------------------------------------------------- pure helpers
\* sf && model && sf.source.uri.toString() === model.uri.toString()
SameSource(m, sf) == sf # NoFrame /\ m # NoModel /\ FrameTable[sf].uri = m

\* first(callStack, sf => sf.source.available && presentationHint !== 'deemphasize')
FirstAvailable(stack) ==
    LET ok == {i \in 1..Len(stack) :
                 FrameTable[stack[i]].available /\ FrameTable[stack[i]].hint # "deemphasize"}
    IN  IF ok = {} THEN NoFrame
        ELSE stack[CHOOSE i \in ok : \A j \in ok : i <= j]

\* toggleExceptionWidget up to its await: "close", "await" or "keep"
ToggleOutcome(m, sf, widget) ==
    IF m = NoModel \/ sf = NoFrame THEN "close"
    ELSE LET callStack == CallStack(FrameTable[sf].thread)
             exceptionSf == FirstAvailable(callStack)
         IN  IF Len(callStack) = 0 THEN "close"
             ELSE IF exceptionSf = NoFrame \/ exceptionSf # sf THEN "close"
             ELSE IF widget # <<>> /\ FrameTable[exceptionSf].uri # m THEN "close"
             ELSE IF FrameTable[exceptionSf].uri = m THEN "await"
             ELSE "keep"

\* the branch of updateInlineValueDecorations that schedules the removal
NoInlineValues(m, sf) ==
    ~inlineValues \/ m = NoModel \/ sf = NoFrame \/ m # FrameTable[sf].uri

\* the stop key of this platform
StopKey == IF isMacintosh THEN "Meta" ELSE "Ctrl"

\* --------------------------------------------------- fragments of handlers
\* (a variant that leaves the non-debug hover pass pending)
hideHoverWidget_KeepsNonDebug ==
    /\ hideT' = IF ~IsScheduled(hideT) /\ hoverWidget # NoRange
                THEN Schedule(HIDE_DELAY) ELSE hideT
    /\ showT' = Cancel
    /\ nonDebugT' = nonDebugT
    /\ hideCalled' = TRUE

\* (a variant in which every request restarts the hide pass)
hideHoverWidget_Postpones ==
    /\ hideT' = IF hoverWidget # NoRange THEN Schedule(HIDE_DELAY) ELSE hideT
    /\ showT' = Cancel
    /\ nonDebugT' = Cancel
    /\ hideCalled' = TRUE

\* hideHoverWidget()
hideHoverWidget ==
    /\ hideT' = IF ~IsScheduled(hideT) /\ hoverWidget # NoRange
                THEN Schedule(HIDE_DELAY) ELSE hideT
    /\ showT' = Cancel
    /\ nonDebugT' = Cancel
    /\ hideCalled' = TRUE

\* a handler that does not touch the hover schedulers
noHoverTimers == UNCHANGED hoverTimers /\ hideCalled' = FALSE

\* (a variant that does not compare the frame's source with the model)
showHover_NoUriCheck(range) ==
    hoverWidget' = IF focusedStackFrame # NoFrame THEN range ELSE hoverWidget

\* showHover(range, focus)
showHover(range) ==
    hoverWidget' = IF SameSource(model, focusedStackFrame) THEN range ELSE hoverWidget

\* closeExceptionWidget() / the await of thread.exceptionInfo
toggleExceptionWidget(m, sf, thenUpdate) ==
    LET out == ToggleOutcome(m, sf, exceptionWidget)
        k == [sf |-> sf, thenUpdate |-> thenUpdate]
    IN  /\ exceptionWidget' = IF out = "close" THEN <<>> ELSE exceptionWidget
        /\ IF out = "await"
           THEN /\ k \in toggles \/ Cardinality(toggles) < MaxToggles
                /\ toggles' = toggles \cup {k}
           ELSE toggles' = toggles

\* (a variant in which every call without inline values restarts the removal)
updateInlineValueDecorations_Postpones(m, sf) ==
    IF NoInlineValues(m, sf)
    THEN /\ removeT' = Schedule(REMOVE_DELAY)
         /\ passes' = passes
         /\ lastPass' = lastPass
    ELSE /\ removeT' = Cancel
         /\ Len(passes) < MaxPasses
         /\ passes' = Append(passes, sf)
         /\ lastPass' = sf

\* updateInlineValueDecorations(stackFrame) up to its first await
updateInlineValueDecorations(m, sf) ==
    IF NoInlineValues(m, sf)
    THEN /\ removeT' = IF ~IsScheduled(removeT) THEN Schedule(REMOVE_DELAY) ELSE removeT
         /\ passes' = passes
         /\ lastPass' = lastPass
    ELSE /\ removeT' = Cancel
         /\ Len(passes) < MaxPasses
         /\ passes' = Append(passes, sf)
         /\ lastPass' = sf

noInline == UNCHANGED <<removeT, passes, lastPass>>

\* (a variant that leaves a pending show pass at its old time)
storeHoverRange_NoRestart(range) ==
    /\ hoverRange' = range
    /\ showT' = IF IsScheduled(showT) THEN showT ELSE Schedule(HOVER_DELAY)
    /\ sinceRange' = 0

\* onEditorMouseMove over text of another range than the stored one
storeHoverRange(range) ==
    /\ hoverRange' = range
    /\ showT' = Schedule(HOVER_DELAY)
    /\ sinceRange' = 0


\* ------------------------------------------------------------------- Init
\* The state after the constructor: the schedulers are created lazily and
\* none is scheduled; the constructor's toggleExceptionWidget() has run up
\* to its await.
Constructed ==
    /\ hoverWidget = NoRange
    /\ hoverRange = NoRange
    /\ nonDebugHoverPosition = NoPosition
    /\ mouseDown = FALSE
    /\ exceptionWidget = <<>>
    /\ decorations = NoFrame
    /\ disposed = FALSE
    /\ showT = Off /\ hideT = Off /\ nonDebugT = Off
    /\ updateT = Off /\ removeT = Off
    /\ toggles = IF ToggleOutcome(model, focusedStackFrame, <<>>) = "await"
                 THEN {[sf |-> focusedStackFrame, thenUpdate |-> FALSE]} ELSE {}
    /\ passes = <<>>
    /\ lastPass = NoFrame
    /\ ev = <<"constructor", "">>
    /\ hideCalled = FALSE
    /\ sinceContent = UPDATE_DELAY
    /\ sinceRange = HOVER_DELAY
    /\ shownSinceHide = FALSE

Init ==
    /\ debugState \in States
    /\ focusedStackFrame \in (IF debugState = "Stopped" THEN Frames \cup {NoFrame} ELSE {NoFrame})
    /\ model \in Models
    /\ inlineValues \in BOOLEAN
    /\ enableAllHovers \in BOOLEAN
    /\ isMacintosh \in BOOLEAN
    /\ Constructed

\* ------------------------------------------------- events of the debugger
\* the frames the view model can focus: a thread has a call stack only
\* while the debugger is stopped; the focus can be cleared at any time
Focusable(frames) == IF debugState = "Stopped" THEN frames \cup {NoFrame} ELSE {NoFrame}

\* viewModel.onDidFocusStackFrame -> onFocusStackFrame(sf)
onFocusStackFrame(sf) ==
    /\ ~disposed
    /\ focusedStackFrame' = sf
    /\ ev' = <<"onFocusStackFrame", "">>
    /\ IF model # NoModel /\ SameSource(model, sf)
       THEN /\ toggleExceptionWidget(model, sf, TRUE)
            /\ noHoverTimers
            /\ IF ToggleOutcome(model, sf, exceptionWidget) = "await"
               THEN noInline
               ELSE updateInlineValueDecorations(model, sf)
       ELSE /\ IF model # NoModel
               THEN hideHoverWidget
               ELSE noHoverTimers
            /\ UNCHANGED <<exceptionWidget, toggles>>
            /\ updateInlineValueDecorations(model, sf)
    /\ UNCHANGED <<debugState, model, inlineValues, enableAllHovers, isMacintosh,
                   hoverVars, decorations, disposed, updateT, history>>

\* debugService.onDidChangeState
onDidChangeState(state) ==
    /\ ~disposed
    /\ state # debugState
    /\ debugState' = state
    /\ ev' = <<"onDidChangeState", "">>
    /\ IF state # "Stopped"
       THEN toggleExceptionWidget(model, focusedStackFrame, FALSE)
       ELSE UNCHANGED <<exceptionWidget, toggles>>
    /\ noHoverTimers
    /\ UNCHANGED <<focusedStackFrame, model, inlineValues, enableAllHovers, isMacintosh,
                   hoverVars, decorations, disposed, inlineTimers, passes, lastPass, history>>

\* --------------------------------------------------- events of the editor
\* editor.onDidChangeModel
onDidChangeModel(m) ==
    /\ ~disposed
    /\ m # model
    /\ model' = m
    /\ ev' = <<"onDidChangeModel", "">>
    /\ toggleExceptionWidget(m, focusedStackFrame, FALSE)
    /\ hideHoverWidget
    /\ updateInlineValueDecorations(m, focusedStackFrame)
    /\ UNCHANGED <<debugState, focusedStackFrame, inlineValues, enableAllHovers, isMacintosh,
                   hoverVars, decorations, disposed, updateT, history>>

\* (a variant that does not restart a pending update pass)
onDidChangeModelContent_NoRestart ==
    /\ ~disposed
    /\ ev' = <<"onDidChangeModelContent", "">>
    /\ updateT' = IF IsScheduled(updateT) THEN updateT ELSE Schedule(UPDATE_DELAY)
    /\ sinceContent' = 0
    /\ noHoverTimers
    /\ UNCHANGED <<envVars, hoverVars, exceptionWidget, decorations, disposed,
                   removeT, toggles, passes, lastPass, sinceRange, shownSinceHide>>

\* editor.onDidChangeModelContent
onDidChangeModelContent ==
    /\ ~disposed
    /\ ev' = <<"onDidChangeModelContent", "">>
    /\ updateT' = Schedule(UPDATE_DELAY)
    /\ sinceContent' = 0
    /\ noHoverTimers
    /\ UNCHANGED <<envVars, hoverVars, exceptionWidget, decorations, disposed,
                   removeT, toggles, passes, lastPass, sinceRange, shownSinceHide>>

\* editor.onDidScrollChange(() => this.hideHoverWidget): the listener
\* evaluates the method reference and does not call it
onDidScrollChange ==
    /\ ~disposed
    /\ ev' = <<"onDidScrollChange", "">>
    /\ noHoverTimers
    /\ UNCHANGED <<envVars, hoverVars, exceptionWidget, decorations, disposed,
                   inlineTimers, toggles, passes, lastPass, history>>

\* editor.onMouseDown -> onEditorMouseDown
onEditorMouseDown(target) ==
    /\ ~disposed
    /\ ev' = <<"onEditorMouseDown", "">>
    /\ mouseDown' = TRUE
    /\ IF target.type = "CONTENT_WIDGET" /\ target.detail = HoverWidgetID
       THEN noHoverTimers
       ELSE hideHoverWidget
    /\ UNCHANGED <<envVars, hoverWidget, hoverRange, nonDebugHoverPosition,
                   exceptionWidget, decorations, disposed,
                   inlineTimers, toggles, passes, lastPass, history>>

\* editor.onMouseUp
onMouseUp ==
    /\ ~disposed
    /\ ev' = <<"onMouseUp", "">>
    /\ mouseDown' = FALSE
    /\ noHoverTimers
    /\ UNCHANGED <<envVars, hoverWidget, hoverRange, nonDebugHoverPosition,
                   exceptionWidget, decorations, disposed,
                   inlineTimers, toggles, passes, lastPass, history>>

\* (a variant that hides the hover also while a mouse button is pressed)
mouseMoveStopped_IgnoresMouseDown(target, stopKey) ==
    LET allHovers == enableAllHovers /\ target.position # NoPosition
        nonDebug1 == IF allHovers THEN Schedule(HOVER_DELAY) ELSE nonDebugT
    IN  /\ nonDebugHoverPosition' =
               IF allHovers THEN target.position ELSE nonDebugHoverPosition
        /\ IF target.type = "CONTENT_WIDGET" /\ target.detail = HoverWidgetID /\ ~stopKey
           THEN /\ nonDebugT' = nonDebug1
                /\ hideCalled' = FALSE
                /\ UNCHANGED <<showT, hideT, hoverRange, sinceRange>>
           ELSE IF target.type = "CONTENT_TEXT"
           THEN /\ nonDebugT' = nonDebug1
                /\ hideCalled' = FALSE
                /\ hideT' = hideT
                /\ IF target.range # NoRange /\ target.range # hoverRange
                   THEN storeHoverRange(target.range)
                   ELSE UNCHANGED <<hoverRange, showT, sinceRange>>
           ELSE /\ hideHoverWidget
                /\ UNCHANGED <<hoverRange, sinceRange>>

\* onEditorMouseMove after its check of the debugger's state; stopKey: the
\* event's ctrlKey (metaKey on macOS)
mouseMoveStopped(target, stopKey) ==
    LET allHovers == enableAllHovers /\ target.position # NoPosition
        nonDebug1 == IF allHovers THEN Schedule(HOVER_DELAY) ELSE nonDebugT
    IN  /\ nonDebugHoverPosition' =
               IF allHovers THEN target.position ELSE nonDebugHoverPosition
        /\ IF target.type = "CONTENT_WIDGET" /\ target.detail = HoverWidgetID /\ ~stopKey
           THEN /\ nonDebugT' = nonDebug1
                /\ hideCalled' = FALSE
                /\ UNCHANGED <<showT, hideT, hoverRange, sinceRange>>
           ELSE IF target.type = "CONTENT_TEXT"
           THEN /\ nonDebugT' = nonDebug1
                /\ hideCalled' = FALSE
                /\ hideT' = hideT
                /\ IF target.range # NoRange /\ target.range # hoverRange
                   THEN storeHoverRange(target.range)
                   ELSE UNCHANGED <<hoverRange, showT, sinceRange>>
           ELSE IF ~mouseDown
           THEN /\ hideHoverWidget
                /\ UNCHANGED <<hoverRange, sinceRange>>
           ELSE /\ nonDebugT' = nonDebug1
                /\ hideCalled' = FALSE
                /\ UNCHANGED <<showT, hideT, hoverRange, sinceRange>>

\* (a variant without the check of the debugger's state)
onEditorMouseMove_NoStateCheck(target, stopKey) ==
    /\ ~disposed
    /\ ev' = <<"onEditorMouseMove", "">>
    /\ mouseMoveStopped(target, stopKey)
    /\ UNCHANGED <<envVars, hoverWidget, mouseDown, exceptionWidget, decorations, disposed,
                   inlineTimers, toggles, passes, lastPass, sinceContent, shownSinceHide>>

\* editor.onMouseMove -> onEditorMouseMove
onEditorMouseMove(target, stopKey) ==
    /\ ~disposed
    /\ ev' = <<"onEditorMouseMove", "">>
    /\ IF debugState # "Stopped"
       THEN /\ noHoverTimers
            /\ UNCHANGED <<hoverRange, nonDebugHoverPosition, sinceRange>>
       ELSE mouseMoveStopped(target, stopKey)
    /\ UNCHANGED <<envVars, hoverWidget, mouseDown, exceptionWidget, decorations, disposed,
                   inlineTimers, toggles, passes, lastPass, sinceContent, shownSinceHide>>

\* the test of the mouse-leave listener: the position is outside the rectangle
OutsideRect(posx, posy, rect) ==
    posx < rect.left \/ posx > rect.right \/ posy < rect.top \/ posy > rect.bottom

\* (a variant that hides wherever the mouse leaves)
onMouseLeave_IgnoresRect(hasDomNode, posx, posy) ==
    /\ ~disposed
    /\ ev' = <<"onMouseLeave", "">>
    /\ IF hasDomNode
       THEN hideHoverWidget
       ELSE /\ nonDebugT' = Cancel
            /\ hideCalled' = FALSE
            /\ UNCHANGED <<showT, hideT>>
    /\ UNCHANGED <<envVars, hoverVars, exceptionWidget, decorations, disposed,
                   inlineTimers, toggles, passes, lastPass, history>>

\* editor.onMouseLeave; hasDomNode: hoverWidget.getDomNode() is there;
\* posx, posy: the event's position
onMouseLeave(hasDomNode, posx, posy) ==
    /\ ~disposed
    /\ ev' = <<"onMouseLeave", "">>
    /\ IF hasDomNode /\ OutsideRect(posx, posy, HoverRect)
       THEN hideHoverWidget
       ELSE /\ nonDebugT' = Cancel
            /\ hideCalled' = FALSE
            /\ UNCHANGED <<showT, hideT>>
    /\ UNCHANGED <<envVars, hoverVars, exceptionWidget, decorations, disposed,
                   inlineTimers, toggles, passes, lastPass, history>>

\* (a variant that hides on every key)
onKeyDown_AlwaysHide(keyCode) ==
    /\ ~disposed
    /\ ev' = <<"onKeyDown", keyCode>>
    /\ hideHoverWidget
    /\ UNCHANGED <<envVars, hoverVars, exceptionWidget, decorations, disposed,
                   inlineTimers, toggles, passes, lastPass, history>>

\* editor.onKeyDown -> onKeyDown
onKeyDown(keyCode) ==
    /\ ~disposed
    /\ ev' = <<"onKeyDown", keyCode>>
    /\ IF keyCode # StopKey
       THEN hideHoverWidget
       ELSE noHoverTimers
    /\ UNCHANGED <<envVars, hoverVars, exceptionWidget, decorations, disposed,
                   inlineTimers, toggles, passes, lastPass, history>>

\* IDebugEditorContribution.showHover, called by a command
callShowHover(range) ==
    /\ ~disposed
    /\ ev' = <<"showHover", "">>
    /\ showHover(range)
    /\ noHoverTimers
    /\ UNCHANGED <<envVars, hoverRange, nonDebugHoverPosition, mouseDown,
                   exceptionWidget, decorations, disposed,
                   inlineTimers, toggles, passes, lastPass, history>>


\* ------------------------------------------------------------- schedulers
\* showHoverScheduler's runner
showHoverSchedulerRun ==
    /\ showT = 0
    /\ showT' = Off
    /\ ev' = <<"showHoverScheduler", "">>
    /\ hideCalled' = FALSE
    /\ IF hoverRange # NoRange
       THEN showHover(hoverRange)
       ELSE hoverWidget' = hoverWidget
    /\ shownSinceHide' =
           IF hoverRange # NoRange /\ SameSource(model, focusedStackFrame)
              /\ hoverRange # hoverWidget /\ IsScheduled(hideT)
           THEN TRUE ELSE shownSinceHide
    /\ UNCHANGED <<envVars, hoverRange, nonDebugHoverPosition, mouseDown,
                   exceptionWidget, decorations, disposed,
                   hideT, nonDebugT, inlineTimers, toggles, passes, lastPass, clocks>>

\* hideHoverScheduler's runner; isHovered: hoverWidget.isHovered()
hideHoverSchedulerRun(isHovered) ==
    /\ hideT = 0
    /\ hideT' = Off
    /\ ev' = <<"hideHoverScheduler", "">>
    /\ hideCalled' = FALSE
    /\ hoverWidget' = IF ~isHovered THEN NoRange ELSE hoverWidget
    /\ shownSinceHide' = FALSE
    /\ UNCHANGED <<envVars, hoverRange, nonDebugHoverPosition, mouseDown,
                   exceptionWidget, decorations, disposed,
                   showT, nonDebugT, inlineTimers, toggles, passes, lastPass, clocks>>

\* provideNonDebugHoverScheduler's runner: getHover's result is dropped
provideNonDebugHoverSchedulerRun ==
    /\ nonDebugT = 0
    /\ nonDebugT' = Off
    /\ ev' = <<"provideNonDebugHoverScheduler", "">>
    /\ hideCalled' = FALSE
    /\ UNCHANGED <<envVars, hoverVars, exceptionWidget, decorations, disposed,
                   showT, hideT, inlineTimers, toggles, passes, lastPass, history>>

\* updateInlineValuesScheduler's runner
updateInlineValuesSchedulerRun ==
    /\ updateT = 0
    /\ updateT' = Off
    /\ ev' = <<"updateInlineValuesScheduler", "">>
    /\ updateInlineValueDecorations(model, focusedStackFrame)
    /\ noHoverTimers
    /\ UNCHANGED <<envVars, hoverVars, exceptionWidget, decorations, disposed,
                   toggles, history>>

\* removeInlineValuesScheduler's runner: editor.removeDecorations
removeInlineValuesSchedulerRun ==
    /\ removeT = 0
    /\ removeT' = Off
    /\ ev' = <<"removeInlineValuesScheduler", "">>
    /\ decorations' = NoFrame
    /\ noHoverTimers
    /\ UNCHANGED <<envVars, hoverVars, exceptionWidget, disposed,
                   updateT, toggles, passes, lastPass, history>>

\* ---------------------------------------------------------- continuations
\* toggleExceptionWidget after `await focusedSf.thread.exceptionInfo`, and,
\* when onFocusStackFrame awaited it, that handler's last statement
toggleExceptionWidgetResume(k) ==
    /\ k \in toggles
    /\ toggles' = toggles \ {k}
    /\ LET f == FrameTable[k.sf]
           shows == ExceptionInfo(f.thread) /\ f.line # 0 /\ f.column # 0
       IN  /\ exceptionWidget' = IF shows THEN <<f.line, f.column>> ELSE exceptionWidget
           /\ ev' = <<"toggleExceptionWidget", IF shows THEN "show" ELSE "">>
    /\ IF k.thenUpdate
       THEN updateInlineValueDecorations(model, k.sf)
       ELSE noInline
    /\ noHoverTimers
    /\ UNCHANGED <<envVars, hoverVars, decorations, disposed, updateT, history>>

\* updateInlineValueDecorations after its awaits: editor.setDecorations
updateInlineValueDecorationsResume(i) ==
    /\ i \in 1..Len(passes)
    /\ passes' = [j \in 1..(Len(passes) - 1) |-> IF j < i THEN passes[j] ELSE passes[j + 1]]
    /\ decorations' = passes[i]
    /\ lastPass' = lastPass
    /\ ev' = <<"setDecorations", "">>
    /\ noHoverTimers
    /\ UNCHANGED <<envVars, hoverVars, exceptionWidget, disposed,
                   inlineTimers, toggles, history>>

\* ------------------------------------------------------------------- time
Timers == {showT, hideT, nonDebugT, updateT, removeT}

Dec(t) == IF t > 0 THEN t - 1 ELSE t
Inc(c, cap) == IF c < cap THEN c + 1 ELSE c

\* 100 ms pass
Tick ==
    /\ 0 \notin Timers
    /\ \E t \in Timers : t > 0
    /\ showT' = Dec(showT) /\ hideT' = Dec(hideT) /\ nonDebugT' = Dec(nonDebugT)
    /\ updateT' = Dec(updateT) /\ removeT' = Dec(removeT)
    /\ sinceContent' = Inc(sinceContent, UPDATE_DELAY)
    /\ sinceRange' = Inc(sinceRange, HOVER_DELAY)
    /\ ev' = <<"tick", "">>
    /\ hideCalled' = FALSE
    /\ UNCHANGED <<envVars, hoverVars, exceptionWidget, decorations, disposed,
                   toggles, passes, lastPass, shownSinceHide>>

\* ---------------------------------------------------------------- dispose
\* dispose(): the listeners and the three hover schedulers are in toDispose;
\* the two inline value schedulers are not
Dispose ==
    /\ ~disposed
    /\ disposed' = TRUE
    /\ showT' = Off /\ hideT' = Off /\ nonDebugT' = Off
    /\ ev' = <<"dispose", "">>
    /\ hideCalled' = FALSE
    /\ shownSinceHide' = FALSE
    /\ UNCHANGED <<envVars, hoverVars, exceptionWidget, decorations,
                   inlineTimers, toggles, passes, lastPass, clocks>>

\* ------------------------------------------------------------------- Next
\* the contribution under every event; it is checked part by part, under
\* the environments given below
Next ==
    \/ \E sf \in Focusable(Frames) : onFocusStackFrame(sf)
    \/ \E state \in States : onDidChangeState(state)
    \/ \E m \in Models : onDidChangeModel(m)
    \/ onDidChangeModelContent
    \/ onDidScrollChange
    \/ \E target \in Targets : onEditorMouseDown(target)
    \/ onMouseUp
    \/ \E target \in Targets, stopKey \in BOOLEAN : onEditorMouseMove(target, stopKey)
    \/ \E hasDomNode \in BOOLEAN, pos \in LeavePositions :
          onMouseLeave(hasDomNode, pos.posx, pos.posy)
    \/ \E keyCode \in KeyCodes : onKeyDown(keyCode)
    \/ \E range \in Ranges : callShowHover(range)
    \/ showHoverSchedulerRun
    \/ \E isHovered \in BOOLEAN : hideHoverSchedulerRun(isHovered)
    \/ provideNonDebugHoverSchedulerRun
    \/ updateInlineValuesSchedulerRun
    \/ removeInlineValuesSchedulerRun
    \/ \E k \in toggles : toggleExceptionWidgetResume(k)
    \/ \E i \in 1..Len(passes) : updateInlineValueDecorationsResume(i)
    \/ Tick
    \/ Dispose

Spec == Init /\ [][Next]_vars


\* ----------------------------------------------------------- environments
\* The three parts of the contribution (hover, inline values, exception
\* widget) share the debugger's state and the editor's model and nothing
\* else.  Each of the specifications below is the contribution, every
\* handler whole, under an environment that exercises one part: the
\* configuration is fixed so that the other parts stay at rest, and the
\* events are drawn from the sets that part reads.

\* hover: inline values are off, the focused frame is none or frame 1
\* (whose thread's exception frame is another one); not macOS
InitHover ==
    /\ debugState \in {"Stopped", "Running"}
    /\ focusedStackFrame = NoFrame
    /\ model \in {"A", "B"}
    /\ inlineValues = FALSE
    /\ enableAllHovers \in BOOLEAN
    /\ isMacintosh = FALSE
    /\ Constructed

NextHover ==
    \/ \E sf \in Focusable({1}) : onFocusStackFrame(sf)
    \/ \E state \in {"Stopped", "Running"} : onDidChangeState(state)
    \/ \E m \in Models : onDidChangeModel(m)
    \/ onDidScrollChange
    \/ \E target \in Targets : onEditorMouseDown(target)
    \/ onMouseUp
    \/ \E target \in Targets, stopKey \in BOOLEAN : onEditorMouseMove(target, stopKey)
    \/ \E hasDomNode \in BOOLEAN, pos \in LeavePositions :
          onMouseLeave(hasDomNode, pos.posx, pos.posy)
    \/ \E keyCode \in KeyCodes : onKeyDown(keyCode)
    \/ \E range \in Ranges : callShowHover(range)
    \/ showHoverSchedulerRun
    \/ \E isHovered \in BOOLEAN : hideHoverSchedulerRun(isHovered)
    \/ provideNonDebugHoverSchedulerRun
    \/ removeInlineValuesSchedulerRun
    \/ Tick
    \/ Dispose

SpecHover == InitHover /\ [][NextHover]_vars

\* keyboard: the hover on both platforms, the debugger staying stopped
InitKeys ==
    /\ debugState = "Stopped"
    /\ focusedStackFrame = NoFrame
    /\ model \in {"A", "B"}
    /\ inlineValues = FALSE
    /\ enableAllHovers \in BOOLEAN
    /\ isMacintosh \in BOOLEAN
    /\ Constructed

NextKeys ==
    \/ \E sf \in Focusable({1}) : onFocusStackFrame(sf)
    \/ \E m \in Models : onDidChangeModel(m)
    \/ \E target \in Targets, stopKey \in BOOLEAN : onEditorMouseMove(target, stopKey)
    \/ \E keyCode \in KeyCodes : onKeyDown(keyCode)
    \/ showHoverSchedulerRun
    \/ \E isHovered \in BOOLEAN : hideHoverSchedulerRun(isHovered)
    \/ provideNonDebugHoverSchedulerRun
    \/ removeInlineValuesSchedulerRun
    \/ Tick

SpecKeys == InitKeys /\ [][NextKeys]_vars

\* mouse: the mouse moving over the editor, its buttons pressed and
\* released, and the mouse leaving the editor; the debugger staying stopped,
\* the model staying the same; not macOS
InitLeave ==
    /\ debugState = "Stopped"
    /\ focusedStackFrame = NoFrame
    /\ model = "A"
    /\ inlineValues = FALSE
    /\ enableAllHovers \in BOOLEAN
    /\ isMacintosh = FALSE
    /\ Constructed

NextLeave ==
    \/ \E sf \in Focusable({1}) : onFocusStackFrame(sf)
    \/ \E target \in Targets : onEditorMouseDown(target)
    \/ onMouseUp
    \/ \E target \in Targets, stopKey \in BOOLEAN : onEditorMouseMove(target, stopKey)
    \/ \E hasDomNode \in BOOLEAN, pos \in LeavePositions :
          onMouseLeave(hasDomNode, pos.posx, pos.posy)
    \/ showHoverSchedulerRun
    \/ \E isHovered \in BOOLEAN : hideHoverSchedulerRun(isHovered)
    \/ provideNonDebugHoverSchedulerRun
    \/ removeInlineValuesSchedulerRun
    \/ Tick

SpecLeave == InitLeave /\ [][NextLeave]_vars


\* inline values: no mouse or key events, so the hover stays hidden; the
\* focused frame is none, frame 1 (its pass starts at once) or frame 4 (it
\* is its thread's exception frame, so its pass starts after the await of
\* exceptionInfo)
InitInline ==
    /\ debugState = "Stopped"
    /\ focusedStackFrame \in {NoFrame, 1}
    /\ model \in {"A", "B"}
    /\ inlineValues \in BOOLEAN
    /\ enableAllHovers = FALSE
    /\ isMacintosh = FALSE
    /\ Constructed

NextInline ==
    \/ \E sf \in Focusable({1, 4}) : onFocusStackFrame(sf)
    \/ \E m \in Models : onDidChangeModel(m)
    \/ onDidChangeModelContent
    \/ updateInlineValuesSchedulerRun
    \/ removeInlineValuesSchedulerRun
    \/ \E k \in toggles : toggleExceptionWidgetResume(k)
    \/ \E i \in 1..Len(passes) : updateInlineValueDecorationsResume(i)
    \/ Tick
    \/ Dispose

SpecInline == InitInline /\ [][NextInline]_vars

\* exception widget: inline values are off, no mouse or key events
InitException ==
    /\ debugState \in States
    /\ focusedStackFrame \in (IF debugState = "Stopped" THEN Frames \cup {NoFrame} ELSE {NoFrame})
    /\ model \in Models
    /\ inlineValues = FALSE
    /\ enableAllHovers = FALSE
    /\ isMacintosh = FALSE
    /\ Constructed

NextException ==
    \/ \E sf \in Focusable(Frames) : onFocusStackFrame(sf)
    \/ \E state \in States : onDidChangeState(state)
    \/ \E m \in Models : onDidChangeModel(m)
    \/ \E k \in toggles : toggleExceptionWidgetResume(k)
    \/ removeInlineValuesSchedulerRun
    \/ Tick
    \/ Dispose

SpecException == InitException /\ [][NextException]_vars


\* ----------------------------------------------------------------- claims
\* what a hide request does to the hide pass: it is scheduled when the
\* widget is visible and no hide pass is pending, and else left as it is
HideRequested ==
    /\ hideT' = IF hoverWidget # NoRange /\ hideT = Off THEN HIDE_DELAY ELSE hideT
    /\ showT' = Off
    /\ nonDebugT' = Off

\* C1: every content change (re)starts the 200 ms update timer; nothing else
\* starts it and nothing cancels it; its pass runs only when 200 ms have
\* passed since the last content change, leaves the timer unscheduled (one
\* pass for a burst) and updates for the frame focused at that moment.
C1_ContentChangesCoalesced ==
    [][ /\ (ev'[1] = "onDidChangeModelContent" => updateT' = UPDATE_DELAY)
        /\ (updateT' # updateT /\ updateT' # Off /\ ev'[1] # "tick"
               => ev'[1] = "onDidChangeModelContent")
        /\ (updateT # Off /\ updateT' = Off => ev'[1] = "updateInlineValuesScheduler")
        /\ (ev'[1] = "updateInlineValuesScheduler"
               => /\ sinceContent = UPDATE_DELAY
                  /\ updateT' = Off
                  /\ passes' = IF NoInlineValues(model, focusedStackFrame)
                               THEN passes
                               ELSE Append(passes, focusedStackFrame)) ]_vars

\* an update pass of the scheduler has started for the focused frame
C1_Witness ==
    /\ ev[1] = "updateInlineValuesScheduler"
    /\ passes # <<>>
    /\ passes[Len(passes)] = focusedStackFrame

\* C2: a scroll change requests hiding the hover: the hide pass is scheduled
\* if the widget is visible and none is pending, and the pending show pass
\* and non-debug hover pass are cancelled.
C2_ScrollRequestsHide ==
    [][ ev'[1] = "onDidScrollChange" => HideRequested ]_vars

\* C3: while Stopped, a mouse move over text of a range other than the
\* stored one stores it and (re)starts the 300 ms show timer; the stored
\* range changes in no other way; the show pass runs only when 300 ms have
\* passed since the range was last stored, leaves the timer unscheduled, and
\* shows the hover at the stored range.
C3_MouseMoveCoalesced ==
    [][ /\ (ev'[1] = "onEditorMouseMove" /\ debugState = "Stopped"
               => \A target \in Targets, stopKey \in BOOLEAN :
                    (/\ target.type = "CONTENT_TEXT"
                     /\ target.range \notin {NoRange, hoverRange}
                     /\ onEditorMouseMove(target, stopKey))
                        => hoverRange' = target.range /\ showT' = HOVER_DELAY)
        /\ (hoverRange' # hoverRange
               => ev'[1] = "onEditorMouseMove" /\ showT' = HOVER_DELAY)
        /\ (ev'[1] = "showHoverScheduler"
               => /\ sinceRange = HOVER_DELAY
                  /\ showT' = Off
                  /\ hoverRange # NoRange
                  /\ (SameSource(model, focusedStackFrame) => hoverWidget' = hoverRange)) ]_vars

\* the show pass has shown the hover at the second range stored
C3_Witness ==
    /\ ev[1] = "showHoverScheduler"
    /\ hoverWidget = 2
    /\ hoverRange = 2

\* C4: a call of hideHoverWidget leaves the show pass and the non-debug
\* hover pass unscheduled, schedules the hide pass only when the widget is
\* visible and no hide pass was pending, and does not hide the widget.
C4_HideCancelsPending ==
    [][ hideCalled' => HideRequested /\ hoverWidget' = hoverWidget ]_vars

\* a hide request has scheduled the hide pass for the visible widget
C4_Witness ==
    /\ hideCalled
    /\ hoverWidget # NoRange
    /\ hideT = HIDE_DELAY

\* C7: showHover (called, or run by the show pass) displays the widget only
\* if the focused frame's source is the editor's model; otherwise it changes
\* nothing.  No other step displays the widget.
C7_ShowHoverOnlyForSameSource ==
    [][ /\ (hoverWidget' # hoverWidget /\ hoverWidget' # NoRange
               => /\ ev'[1] \in {"showHover", "showHoverScheduler"}
                  /\ SameSource(model, focusedStackFrame))
        /\ (ev'[1] \in {"showHover", "showHoverScheduler"}
              /\ ~SameSource(model, focusedStackFrame)
               => UNCHANGED <<envVars, hoverVars, exceptionWidget, decorations, disposed,
                              hideT, nonDebugT, inlineTimers, toggles, passes>>) ]_vars

\* the show pass has displayed the widget
C7_Witness ==
    /\ ev[1] = "showHoverScheduler"
    /\ hoverWidget # NoRange
    /\ SameSource(model, focusedStackFrame)

\* C9: a key down of Ctrl (Meta on macOS) leaves the hover widget and the
\* three hover timers as they are; a key down of another key requests
\* hiding.
C9_StopKeyDoesNotHide ==
    [][ ev'[1] = "onKeyDown"
          => IF ev'[2] = (IF isMacintosh THEN "Meta" ELSE "Ctrl")
             THEN UNCHANGED <<hoverWidget, showT, hideT, nonDebugT>> /\ ~hideCalled'
             ELSE HideRequested /\ hideCalled' ]_vars

\* the stop key was pressed with the hover visible and a show pass pending
C9_Witness ==
    /\ ev = <<"onKeyDown", IF isMacintosh THEN "Meta" ELSE "Ctrl">>
    /\ hoverWidget # NoRange
    /\ showT # Off
    /\ isMacintosh

\* C10: a mouse move while the debugger is not Stopped changes nothing.
C10_MouseMoveIgnoredUnlessStopped ==
    [][ ev'[1] = "onEditorMouseMove" /\ debugState # "Stopped"
          => UNCHANGED <<envVars, hoverVars, hoverTimers, inlineTimers,
                         exceptionWidget, decorations, toggles, passes>> ]_vars

\* a mouse move arrived, the debugger running, passes pending
C10_Witness ==
    /\ ev[1] = "onEditorMouseMove"
    /\ debugState # "Stopped"
    /\ showT # Off
    /\ hideT # Off


\* no scheduler of the inline values is pending and no continuation is
\* awaiting a result of the debug adapter
InlineAtRest ==
    /\ updateT = Off /\ removeT = Off
    /\ passes = <<>> /\ toggles = {}

\* C5: once there is no focused frame, or its source is not the editor's
\* model, or inline values are disabled, and everything pending has run, the
\* editor has no inline value decorations.
C5_NoStaleDecorations ==
    InlineAtRest /\ NoInlineValues(model, focusedStackFrame) => decorations = NoFrame

\* C6: when the exception widget is shown, the editor has a model, the
\* focused frame is the first available frame of its thread's call stack,
\* its source is the model, the thread has exception info, its start line
\* and column are not 0, and the widget is at that line and column.
C6_ExceptionWidgetShownForFocusedFrame ==
    [][ ev' = <<"toggleExceptionWidget", "show">>
          => LET sf == focusedStackFrame'
             IN  /\ model' # NoModel
                 /\ sf # NoFrame
                 /\ FirstAvailable(CallStack(FrameTable[sf].thread)) = sf
                 /\ FrameTable[sf].uri = model'
                 /\ ExceptionInfo(FrameTable[sf].thread)
                 /\ FrameTable[sf].line # 0 /\ FrameTable[sf].column # 0
                 /\ exceptionWidget' = <<FrameTable[sf].line, FrameTable[sf].column>> ]_vars

\* C8: once the debugger is not Stopped and no frame is focused (both events
\* delivered, in either order) and no toggle is awaiting, the exception
\* widget is closed.
C8_ExceptionWidgetClosedAfterContinue ==
    debugState # "Stopped" /\ focusedStackFrame = NoFrame /\ toggles = {}
        => exceptionWidget = <<>>

\* C11 (as stated): mouseDown is set by a mouse down, cleared by a mouse up
\* and changed by nothing else; a mouse move (Stopped) onto any target that
\* is not editor text requests hiding exactly when mouseDown is false.
C11_NonTextMoveHidesUnlessMouseDown ==
    [][ /\ (ev'[1] = "onEditorMouseDown" => mouseDown')
        /\ (ev'[1] = "onMouseUp" => ~mouseDown')
        /\ (mouseDown' # mouseDown => ev'[1] \in {"onEditorMouseDown", "onMouseUp"})
        /\ (ev'[1] = "onEditorMouseMove" /\ debugState = "Stopped"
               => \A target \in Targets, stopKey \in BOOLEAN :
                    (target.type # "CONTENT_TEXT" /\ onEditorMouseMove(target, stopKey))
                        => (hideCalled' <=> ~mouseDown)) ]_vars

\* C11 (amended): as above, but a move onto the debug hover widget itself
\* without the stop key requests no hiding, whatever mouseDown is; a move
\* onto another target that is not editor text requests hiding exactly when
\* mouseDown is false.
C11_MoveOffTextHidesUnlessMouseDown ==
    [][ /\ (ev'[1] = "onEditorMouseDown" => mouseDown')
        /\ (ev'[1] = "onMouseUp" => ~mouseDown')
        /\ (mouseDown' # mouseDown => ev'[1] \in {"onEditorMouseDown", "onMouseUp"})
        /\ (ev'[1] = "onEditorMouseMove" /\ debugState = "Stopped"
               => \A target \in Targets, stopKey \in BOOLEAN :
                    (target.type # "CONTENT_TEXT" /\ onEditorMouseMove(target, stopKey))
                        => IF target.type = "CONTENT_WIDGET"
                                /\ target.detail = HoverWidgetID /\ ~stopKey
                           THEN ~hideCalled'
                           ELSE (hideCalled' <=> ~mouseDown)) ]_vars

\* a mouse button is pressed, the hover is visible, and a mouse move has
\* requested no hiding; the move was not onto text: with all hovers enabled
\* a move onto text, which has a position, restarts the non-debug hover pass
C11_Witness ==
    /\ ev[1] = "onEditorMouseMove"
    /\ debugState = "Stopped"
    /\ mouseDown
    /\ hoverWidget # NoRange
    /\ enableAllHovers
    /\ nonDebugT # HOVER_DELAY
    /\ hideT = Off
    /\ ~hideCalled

\* C12: a mouse leave cancels the non-debug hover pass; it requests hiding
\* only if the hover widget has a DOM node and the position is outside the
\* node's rectangle, and then it does request it; with the position inside
\* the rectangle (its border included) it requests none and leaves the show
\* pass and the hide pass as they are.
C12_MouseLeaveHidesOnlyOutsideHover ==
    [][ ev'[1] = "onMouseLeave"
          => /\ nonDebugT' = Off
             /\ \A hasDomNode \in BOOLEAN, pos \in LeavePositions :
                  onMouseLeave(hasDomNode, pos.posx, pos.posy)
                    => LET inside == /\ pos.posx \in HoverRect.left .. HoverRect.right
                                     /\ pos.posy \in HoverRect.top .. HoverRect.bottom
                       IN  /\ (hideCalled' => hasDomNode /\ ~inside)
                           /\ (hasDomNode /\ ~inside => hideCalled' /\ HideRequested)
                           /\ (inside => ~hideCalled' /\ UNCHANGED <<showT, hideT>>) ]_vars

\* the mouse left the editor with the hover visible and a show pass pending,
\* and no hiding was requested: the non-debug hover pass alone was cancelled
C12_Witness ==
    /\ ev[1] = "onMouseLeave"
    /\ hoverWidget # NoRange
    /\ showT # Off
    /\ nonDebugT = Off
    /\ enableAllHovers
    /\ ~hideCalled

\* C13: a hide request that finds a hide pass pending leaves its timer as
\* it is; the timer starts at 600 ms, on a hide request only; while pending
\* it only counts down with time, until the pass runs at 0 (or the
\* contribution is disposed), and time does not pass while it is at 0; the
\* pass hides the widget exactly when the widget is not hovered.
C13_HidePassNotPostponed ==
    [][ /\ (hideCalled' /\ hideT # Off => hideT' = hideT)
        /\ (hideT = Off /\ hideT' # Off => hideCalled' /\ hideT' = HIDE_DELAY)
        /\ (hideT # Off /\ hideT' # hideT
               => \/ ev'[1] = "tick" /\ hideT > 0 /\ hideT' = hideT - 1
                  \/ ev'[1] = "hideHoverScheduler" /\ hideT = 0 /\ hideT' = Off
                  \/ ev'[1] = "dispose" /\ hideT' = Off)
        /\ (ev'[1] = "tick" /\ hideT # Off => hideT' = hideT - 1 /\ hideT > 0)
        /\ (ev'[1] = "hideHoverScheduler"
               => /\ hideT = 0
                  /\ \A isHovered \in BOOLEAN :
                       hideHoverSchedulerRun(isHovered)
                         => (hoverWidget' = NoRange <=> ~isHovered)) ]_vars

\* a hide request arrived while a hide pass was pending, some of its 600 ms
\* gone, and the pass keeps the time it had left
C13_Witness ==
    /\ hideCalled
    /\ hoverWidget # NoRange
    /\ hideT # Off
    /\ hideT < HIDE_DELAY

\* C14: a hide pass that was scheduled before the show pass displayed the
\* hover at a new range does not hide that hover.
C14_NewHoverNotHiddenByOlderPass ==
    [][ ev'[1] = "hideHoverScheduler" /\ shownSinceHide
          => hoverWidget' = hoverWidget ]_vars

\* what a call of updateInlineValueDecorations(sf) does with model m: without
\* inline values to show it starts the removal timer only if that is not
\* pending, and starts no pass and sets no decorations; with a matching
\* frame it leaves the removal timer cancelled and starts a pass
UpdateCalled(m, sf) ==
    IF ~inlineValues \/ m = NoModel \/ sf = NoFrame \/ FrameTable[sf].uri # m
    THEN /\ removeT' = IF removeT = Off THEN REMOVE_DELAY ELSE removeT
         /\ passes' = passes
         /\ decorations' = decorations
    ELSE /\ removeT' = Off
         /\ passes' = Append(passes, sf)

\* C15: every call of updateInlineValueDecorations does as above; the
\* removal timer starts at 100 ms, in such a call only; while pending it
\* only counts down with time until the removal runs at 0, or is cancelled by
\* a call that starts a pass; decorations are removed by its pass only.
C15_RemovalDelayedNotPostponed ==
    [][ /\ (ev'[1] = "onFocusStackFrame"
               /\ ~(model # NoModel /\ SameSource(model, focusedStackFrame')
                    /\ ToggleOutcome(model, focusedStackFrame', exceptionWidget) = "await")
               => UpdateCalled(model, focusedStackFrame'))
        /\ (ev'[1] = "onDidChangeModel" => UpdateCalled(model', focusedStackFrame))
        /\ (ev'[1] = "updateInlineValuesScheduler"
               => UpdateCalled(model, focusedStackFrame))
        /\ (ev'[1] = "toggleExceptionWidget"
               => \A k \in toggles :
                    toggleExceptionWidgetResume(k) /\ k.thenUpdate
                      => UpdateCalled(model, k.sf))
        /\ (removeT = Off /\ removeT' # Off
               => /\ removeT' = REMOVE_DELAY
                  /\ ev'[1] \in {"onFocusStackFrame", "onDidChangeModel",
                                  "updateInlineValuesScheduler", "toggleExceptionWidget"})
        /\ (removeT # Off /\ removeT' # removeT
               => \/ ev'[1] = "tick" /\ removeT > 0 /\ removeT' = removeT - 1
                  \/ ev'[1] = "removeInlineValuesScheduler" /\ removeT = 0 /\ removeT' = Off
                  \/ Len(passes') = Len(passes) + 1 /\ removeT' = Off)
        /\ (ev'[1] = "tick" /\ removeT # Off => removeT > 0)
        /\ (decorations # NoFrame /\ decorations' = NoFrame
               => ev'[1] = "removeInlineValuesScheduler" /\ removeT = 0) ]_vars

\* the focus was cleared while decorations were set and the removal was
\* already due: the call left its timer as it was
C15_Witness ==
    /\ ev[1] = "onFocusStackFrame"
    /\ focusedStackFrame = NoFrame
    /\ inlineValues
    /\ decorations # NoFrame
    /\ removeT = 0

\* C16: when every update pass has finished, the decorations in the editor,
\* if they have not been removed, are those of the pass that started last.
C16_LaterPassWins ==
    passes = <<>> /\ decorations # NoFrame => decorations = lastPass

\* C17: dispose() leaves none of the five timers pending, and after it no
\* timer's pass runs and no event handler runs.
C17_NothingRunsAfterDispose ==
    [][ /\ (ev'[1] = "dispose"
               => showT' = Off /\ hideT' = Off /\ nonDebugT' = Off
                  /\ updateT' = Off /\ removeT' = Off)
        /\ (disposed
               => ev'[1] \notin
                    {"showHoverScheduler", "hideHoverScheduler",
                     "provideNonDebugHoverScheduler",
                     "updateInlineValuesScheduler", "removeInlineValuesScheduler",
                     "onFocusStackFrame", "onDidChangeState", "onDidChangeModel",
                     "onDidChangeModelContent", "onDidScrollChange",
                     "onEditorMouseDown", "onMouseUp", "onEditorMouseMove",
                     "onMouseLeave", "onKeyDown", "showHover"}) ]_vars

=============================================================================
